---- MODULE Spec2Model ----
(***************************************************************************)
(* Model of the 6x6 Sudoku generator of sudoku6gen.py: the safety check    *)
(* is_safe, the row-major scan find_empty, the randomized backtracking     *)
(* solver solve_grid (recursion made explicit as a stack of frames) and    *)
(* the carving loop of generate_puzzle.                                    *)
(***************************************************************************)
EXTENDS Integers, Sequences, FiniteSets, TLC

\* ---------------------------------------------------------------- constants
GRID_SIZE == 6
BOX_ROWS == 2
BOX_COLS == 3
DIFFICULTY_LEVELS == ("Medium" :> 18) @@ ("Hard" :> 22)
DefaultTarget == 18
MaxAttempts == 1000

\* ------------------------------------------------------------------- bounds
\* recursion depth down to which random.shuffle may reverse the candidates;
\* calls nested deeper get them in increasing order
ShuffleDepth == 1
\* extra clues put into the two open rows of a partial grid given to solve_grid
MaxClues == 2
\* leading cells of a solved grid kept in the grids given to is_safe
MaxSafeFill == 1

\* ------------------------------------------------------------------- grids
Idx == 0..(GRID_SIZE - 1)
Cells == Idx \X Idx
\* a grid is the tuple of its 36 cells in row-major order; At gives the
\* position of grid[row, col] in it
At(row, col) == row * GRID_SIZE + col + 1
Positions == 1..(GRID_SIZE * GRID_SIZE)
CellOf(k) == <<(k - 1) \div GRID_SIZE, (k - 1) % GRID_SIZE>>
Get(g, p) == g[At(p[1], p[2])]
ZeroGrid == [k \in Positions |-> 0]
None == <<>>

RowMajor(p) == p[1] * GRID_SIZE + p[2]

\* faulty variant of is_safe: BOX_ROWS and BOX_COLS exchanged
is_safe_swapped(g, row, col, num) ==
    IF (\E j \in Idx : g[At(row, j)] = num) \/ (\E i \in Idx : g[At(i, col)] = num)
    THEN FALSE
    ELSE LET start_row == BOX_COLS * (row \div BOX_COLS)
             start_col == BOX_ROWS * (col \div BOX_ROWS)
         IN  IF \E i \in start_row..(start_row + BOX_COLS - 1) :
                  \E j \in start_col..(start_col + BOX_ROWS - 1) :
                     i \in Idx /\ j \in Idx /\ g[At(i, j)] = num
             THEN FALSE
             ELSE TRUE

\* faulty variant of is_safe: the box slice is not looked at
is_safe_nobox(g, row, col, num) ==
    IF (\E j \in Idx : g[At(row, j)] = num) \/ (\E i \in Idx : g[At(i, col)] = num)
    THEN FALSE
    ELSE TRUE

\* num in grid[row, :] or num in grid[:, col]; then the box slice
is_safe(g, row, col, num) ==
    IF (\E j \in Idx : g[At(row, j)] = num) \/ (\E i \in Idx : g[At(i, col)] = num)
    THEN FALSE
    ELSE LET start_row == BOX_ROWS * (row \div BOX_ROWS)
             start_col == BOX_COLS * (col \div BOX_COLS)
         IN  IF \E i \in start_row..(start_row + BOX_ROWS - 1) :
                  \E j \in start_col..(start_col + BOX_COLS - 1) :
                     g[At(i, j)] = num
             THEN FALSE
             ELSE TRUE

\* faulty variant of find_empty: the last column is not scanned
find_empty_short(g) ==
    LET zeros == {p \in Cells : p[2] < GRID_SIZE - 1 /\ Get(g, p) = 0}
    IN  IF zeros = {} THEN None
        ELSE CHOOSE p \in zeros : \A q \in zeros : RowMajor(p) <= RowMajor(q)

\* first cell holding 0 in row-major order, or None
find_empty(g) ==
    LET zeros == {p \in Cells : Get(g, p) = 0}
    IN  IF zeros = {} THEN None
        ELSE CHOOSE p \in zeros : \A q \in zeros : RowMajor(p) <= RowMajor(q)

\* faulty variant of RangeList: list(range(1, GRID_SIZE))
RangeListShort == [i \in 1..(GRID_SIZE - 1) |-> i]

\* list(range(1, GRID_SIZE + 1))
RangeList == [i \in 1..GRID_SIZE |-> i]

\* the orders random.shuffle is taken to produce: the list as it is or
\* reversed, down to recursion depth ShuffleDepth, and the list as it is below
Rev(s) == [i \in 1..Len(s) |-> s[Len(s) + 1 - i]]
Shuffles(depth) ==
    IF depth < ShuffleDepth
    THEN {RangeList, Rev(RangeList)}
    ELSE {RangeList}

\* faulty variant of LoopDone: the last candidate is never tried
LoopDoneEarly(f) == f.k >= Len(f.nums)

\* for num in nums: exhausted
LoopDone(f) == f.k > Len(f.nums)

\* faulty variant of Unplace: the cell is not cleared
UnplaceForgot(g, row, col) == g

\* grid[row, col] = 0
Unplace(g, row, col) == [g EXCEPT ![At(row, col)] = 0]

\* faulty variant of Target: the default is Hard's count
TargetHardDefault(d) ==
    IF d \in DOMAIN DIFFICULTY_LEVELS THEN DIFFICULTY_LEVELS[d] ELSE 22

\* DIFFICULTY_LEVELS.get(difficulty, 18)
Target(d) ==
    IF d \in DOMAIN DIFFICULTY_LEVELS THEN DIFFICULTY_LEVELS[d] ELSE DefaultTarget

\* faulty variant of LoopCond: attempts <= 1000
LoopCondInclusive(cr, n, a) == cr < n /\ a <= MaxAttempts

\* while cells_removed < num_to_remove and attempts < 1000
LoopCond(cr, n, a) == cr < n /\ a < MaxAttempts

\* faulty variant of CellFilled: the cell is not looked at
CellFilledAlways(p, row, col) == TRUE

\* if puzzle[row, col] != 0
CellFilled(p, row, col) == p[At(row, col)] # 0

\* the cells random.randint(0, 5), random.randint(0, 5) is taken to pick: a
\* cell already cleared, or the first cell in row-major order that is not
Picks(p) ==
    LET first == IF \A k \in Positions : p[k] = 0 THEN 0
                 ELSE CHOOSE k \in Positions :
                        p[k] # 0 /\ \A j \in 1..(k - 1) : p[j] = 0
    IN  {q \in Cells : Get(p, q) = 0 \/ At(q[1], q[2]) = first}

\* ------------------------------------------------------------------- inputs
Difficulties == {"Medium", "Hard", "Easy"}

FromRows(rs) == [k \in Positions |-> rs[CellOf(k)[1] + 1][CellOf(k)[2] + 1]]

\* a solved grid, used to build the partial grids handed to solve_grid
BaseGrid == FromRows(<< <<1, 2, 3, 4, 5, 6>>,
                        <<4, 5, 6, 1, 2, 3>>,
                        <<2, 1, 4, 3, 6, 5>>,
                        <<3, 6, 5, 2, 1, 4>>,
                        <<5, 3, 1, 6, 4, 2>>,
                        <<6, 4, 2, 5, 3, 1>> >>)

\* the rows, columns and 2x3 boxes of the grid, for the validity notions of
\* the specification (they are not computed by the program)
Units ==
    {{<<r, c>> : c \in Idx} : r \in Idx} \cup
    {{<<r, c>> : r \in Idx} : c \in Idx} \cup
    {{p \in Cells : p[1] \div BOX_ROWS = br /\ p[2] \div BOX_COLS = bc} :
        br \in 0..((GRID_SIZE \div BOX_ROWS) - 1),
        bc \in 0..((GRID_SIZE \div BOX_COLS) - 1)}

\* no duplicate non-zero value in any row, column or box
PartiallyValid(g) ==
    \A u \in Units : \A p \in u : \A q \in u :
        (p # q /\ Get(g, p) # 0) => Get(g, p) # Get(g, q)

\* every row, column and box holds each of 1..6 exactly once: a unit has
\* GRID_SIZE cells, so it holds each value once exactly when it holds them all
FullyValid(g) ==
    \A u \in Units : {Get(g, p) : p \in u} = 1..GRID_SIZE

OpenRows == {p \in Cells : p[1] < BOX_ROWS}
Opened == [k \in Positions |-> IF CellOf(k) \in OpenRows THEN 0 ELSE BaseGrid[k]]

RECURSIVE WithClues(_)
WithClues(n) ==
    IF n = 0 THEN {Opened}
    ELSE LET prev == WithClues(n - 1)
         IN  prev \cup
             {g \in {[h EXCEPT ![At(p[1], p[2])] = v] :
                        h \in prev, p \in OpenRows, v \in 1..GRID_SIZE} :
                 PartiallyValid(g)}

PartialGrids == {ZeroGrid, BaseGrid} \cup WithClues(MaxClues)


\* leading cells of BaseGrid, then zeros, with one cell overwritten: the grids
\* handed to is_safe (duplicates in a row, column or box included)
SafeGrids ==
    {[k \in Positions |-> IF CellOf(k) = c THEN v
                          ELSE IF k <= n THEN BaseGrid[k] ELSE 0] :
        n \in 0..MaxSafeFill, c \in Cells, v \in 0..GRID_SIZE}

\* -------------------------------------------------------------------- state
VARIABLES
    pc,             \* control point: "call", "loop", "return" inside solve_grid;
                    \* "carve", "done" inside generate_puzzle; "safe", "safe_done"
    grid,           \* the grid solve_grid works on in place
    stack,          \* frames of the active solve_grid calls: row, col, nums and
                    \* the position k of the for loop in nums
    ret,            \* value returned by the solve_grid call that returned last
    entry,          \* history: for each frame of stack, the grid at call entry
    ret_entry,      \* history: the grid at entry of the call that returned last
    difficulty,     \* argument of generate_puzzle
    solution,
    puzzle,
    num_to_remove,
    cells_removed,
    attempts,
    iterations,     \* history: iterations of the while loop executed so far
    safe_call       \* arguments and result of the is_safe call under test

vars == <<pc, grid, stack, ret, entry, ret_entry, difficulty, solution, puzzle,
          num_to_remove, cells_removed, attempts, iterations, safe_call>>

solver_vars == <<grid, stack, ret, entry, ret_entry>>
carver_vars == <<solution, puzzle, num_to_remove, cells_removed, attempts,
                 iterations>>

Top == stack[Len(stack)]
Pop(s) == SubSeq(s, 1, Len(s) - 1)

\* generate_puzzle(difficulty): grid = np.zeros(...), then solve_grid(grid)
Init ==
    /\ pc = "call"
    /\ grid = ZeroGrid
    /\ stack = <<>>
    /\ ret = "none"
    /\ entry = <<>>
    /\ ret_entry = ZeroGrid
    /\ difficulty \in Difficulties
    /\ solution = ZeroGrid
    /\ puzzle = ZeroGrid
    /\ num_to_remove = 0
    /\ cells_removed = 0
    /\ attempts = 0
    /\ iterations = 0
    /\ safe_call = None

\* ------------------------------------------------------------- solve_grid
\* find_empty found no cell: return True
SolveBase ==
    /\ pc = "call"
    /\ find_empty(grid) = None
    /\ ret' = TRUE
    /\ ret_entry' = grid
    /\ pc' = "return"
    /\ UNCHANGED <<grid, stack, entry, difficulty, safe_call>>
    /\ UNCHANGED carver_vars

\* find_empty found (row, col): shuffle the candidates and start the for loop
SolveEnter ==
    /\ pc = "call"
    /\ find_empty(grid) # None
    /\ LET find == find_empty(grid)
       IN  \E nums \in Shuffles(Len(stack)) :
              stack' = Append(stack, [row |-> find[1], col |-> find[2],
                                      nums |-> nums, k |-> 1])
    /\ entry' = Append(entry, grid)
    /\ pc' = "loop"
    /\ UNCHANGED <<grid, ret, ret_entry, difficulty, safe_call>>
    /\ UNCHANGED carver_vars

\* the candidate is not safe: next candidate
SolveSkip ==
    /\ pc = "loop"
    /\ ~LoopDone(Top)
    /\ ~is_safe(grid, Top.row, Top.col, Top.nums[Top.k])
    /\ stack' = [stack EXCEPT ![Len(stack)].k = @ + 1]
    /\ UNCHANGED <<pc, grid, ret, entry, ret_entry, difficulty, safe_call>>
    /\ UNCHANGED carver_vars

\* the candidate is safe: place it and recurse
SolvePlace ==
    /\ pc = "loop"
    /\ ~LoopDone(Top)
    /\ is_safe(grid, Top.row, Top.col, Top.nums[Top.k])
    /\ grid' = [grid EXCEPT ![At(Top.row, Top.col)] = Top.nums[Top.k]]
    /\ pc' = "call"
    /\ UNCHANGED <<stack, ret, entry, ret_entry, difficulty, safe_call>>
    /\ UNCHANGED carver_vars

\* no candidate left: return False
SolveFail ==
    /\ pc = "loop"
    /\ LoopDone(Top)
    /\ ret' = FALSE
    /\ ret_entry' = entry[Len(entry)]
    /\ stack' = Pop(stack)
    /\ entry' = Pop(entry)
    /\ pc' = "return"
    /\ UNCHANGED <<grid, difficulty, safe_call>>
    /\ UNCHANGED carver_vars

\* the nested call returned True: return True
SolvePropagate ==
    /\ pc = "return"
    /\ stack # <<>>
    /\ ret = TRUE
    /\ ret_entry' = entry[Len(entry)]
    /\ stack' = Pop(stack)
    /\ entry' = Pop(entry)
    /\ UNCHANGED <<pc, grid, ret, difficulty, safe_call>>
    /\ UNCHANGED carver_vars

\* the nested call returned False: clear the cell, next candidate
SolveBacktrack ==
    /\ pc = "return"
    /\ stack # <<>>
    /\ ret = FALSE
    /\ grid' = Unplace(grid, Top.row, Top.col)
    /\ stack' = [stack EXCEPT ![Len(stack)].k = @ + 1]
    /\ pc' = "loop"
    /\ UNCHANGED <<ret, entry, ret_entry, difficulty, safe_call>>
    /\ UNCHANGED carver_vars

NextSolve ==
    \/ SolveBase
    \/ SolveEnter
    \/ SolveSkip
    \/ SolvePlace
    \/ SolveFail
    \/ SolvePropagate
    \/ SolveBacktrack

\* --------------------------------------------------------- generate_puzzle
\* solve_grid(grid) has returned (its result is not looked at): copy the grid
\* twice, look the target up and reset the counters
CarveInit ==
    /\ pc = "return"
    /\ stack = <<>>
    /\ solution' = grid
    /\ puzzle' = grid
    /\ num_to_remove' = Target(difficulty)
    /\ cells_removed' = 0
    /\ attempts' = 0
    /\ iterations' = 0
    /\ pc' = "carve"
    /\ UNCHANGED <<difficulty, safe_call>>
    /\ UNCHANGED solver_vars

\* one iteration that picks a non-zero cell
CarveHit ==
    /\ pc = "carve"
    /\ LoopCond(cells_removed, num_to_remove, attempts)
    /\ \E p \in Picks(puzzle) :
          /\ CellFilled(puzzle, p[1], p[2])
          /\ puzzle' = [puzzle EXCEPT ![At(p[1], p[2])] = 0]
    /\ cells_removed' = cells_removed + 1
    /\ attempts' = attempts + 1
    /\ iterations' = iterations + 1
    /\ UNCHANGED <<pc, difficulty, solution, num_to_remove, safe_call>>
    /\ UNCHANGED solver_vars

\* one iteration that picks a cell already cleared
CarveMiss ==
    /\ pc = "carve"
    /\ LoopCond(cells_removed, num_to_remove, attempts)
    /\ {p \in Picks(puzzle) : ~CellFilled(puzzle, p[1], p[2])} # {}
    /\ attempts' = attempts + 1
    /\ iterations' = iterations + 1
    /\ UNCHANGED <<pc, difficulty, solution, puzzle, num_to_remove,
                   cells_removed, safe_call>>
    /\ UNCHANGED solver_vars

\* the loop condition is false: return puzzle, solution
CarveExit ==
    /\ pc = "carve"
    /\ ~LoopCond(cells_removed, num_to_remove, attempts)
    /\ pc' = "done"
    /\ UNCHANGED <<difficulty, safe_call>>
    /\ UNCHANGED solver_vars
    /\ UNCHANGED carver_vars

Next ==
    \/ SolveBase
    \/ SolveEnter
    \/ SolveSkip
    \/ SolvePlace
    \/ SolveFail
    \/ SolvePropagate
    \/ SolveBacktrack
    \/ CarveInit
    \/ CarveHit
    \/ CarveMiss
    \/ CarveExit

Spec == Init /\ [][Next]_vars

\* ------------------------------------- solve_grid called on a partial grid
InitSolve ==
    /\ pc = "call"
    /\ grid \in PartialGrids
    /\ stack = <<>>
    /\ ret = "none"
    /\ entry = <<>>
    /\ ret_entry = ZeroGrid
    /\ difficulty = "Medium"
    /\ solution = ZeroGrid
    /\ puzzle = ZeroGrid
    /\ num_to_remove = 0
    /\ cells_removed = 0
    /\ attempts = 0
    /\ iterations = 0
    /\ safe_call = None

SpecSolve == InitSolve /\ [][NextSolve]_vars

\* solve_grid called on the all-zero grid, as generate_puzzle calls it; the
\* interpreter runs the call to its return: every enabled step is taken
SpecEmpty == Init /\ [][NextSolve]_vars /\ WF_vars(NextSolve)

\* ------------------------------------------------ is_safe called on a grid
InitSafe ==
    /\ pc = "safe"
    /\ grid \in SafeGrids
    /\ stack = <<>>
    /\ ret = "none"
    /\ entry = <<>>
    /\ ret_entry = ZeroGrid
    /\ difficulty = "Medium"
    /\ solution = ZeroGrid
    /\ puzzle = ZeroGrid
    /\ num_to_remove = 0
    /\ cells_removed = 0
    /\ attempts = 0
    /\ iterations = 0
    /\ safe_call = None

IsSafeCall ==
    /\ pc = "safe"
    /\ \E row \in Idx, col \in Idx, num \in 1..GRID_SIZE :
          safe_call' = [row |-> row, col |-> col, num |-> num,
                        result |-> is_safe(grid, row, col, num)]
    /\ pc' = "safe_done"
    /\ UNCHANGED <<difficulty>>
    /\ UNCHANGED solver_vars
    /\ UNCHANGED carver_vars

NextSafe == IsSafeCall

SpecSafe == InitSafe /\ [][NextSafe]_vars

\* ------------------------------------------------------- notions of the spec
NoZero(g) == \A p \in Cells : Get(g, p) # 0
ZeroCells(g) == {p \in Cells : Get(g, p) = 0}

\* some assignment of 1..6 to the zero cells of g gives a fully valid grid
RECURSIVE Completable(_)
Completable(g) ==
    IF ZeroCells(g) = {} THEN FullyValid(g)
    ELSE LET p == CHOOSE q \in ZeroCells(g) : TRUE
         IN  \E v \in 1..GRID_SIZE :
                LET h == [g EXCEPT ![At(p[1], p[2])] = v]
                IN  PartiallyValid(h) /\ Completable(h)

\* some assignment of 1..6 to the zero cells of g gives a fully valid grid
\* other than s
RECURSIVE OtherCompletion(_, _)
OtherCompletion(g, s) ==
    IF ZeroCells(g) = {} THEN FullyValid(g) /\ g # s
    ELSE LET p == CHOOSE q \in ZeroCells(g) : TRUE
         IN  \E v \in 1..GRID_SIZE :
                LET h == [g EXCEPT ![At(p[1], p[2])] = v]
                IN  PartiallyValid(h) /\ OtherCompletion(h, s)

OuterReturned == pc = "return" /\ stack = <<>>
Carving == pc \in {"carve", "done"}

\* ------------------------------------------------------------------- claims
\* C1: when solve_grid called on the all-zero grid returns True, every row,
\* column and 2x3 box of the grid holds each of 1..6 exactly once, and no cell
\* is 0.
C1_SolvedFromEmptyIsValid ==
    (OuterReturned /\ ret_entry = ZeroGrid /\ ret = TRUE)
        => (FullyValid(grid) /\ NoZero(grid))

C1_Witness ==
    /\ OuterReturned
    /\ ret_entry = ZeroGrid
    /\ ret = TRUE
    /\ grid[At(0, 0)] = GRID_SIZE

\* C2: started on the all-zero grid, solve_grid terminates and its outermost
\* call returns True, whatever orders the shuffles produce.
C2_SolveFromEmptyReturnsTrue ==
    (pc = "call" /\ stack = <<>> /\ grid = ZeroGrid)
        ~> (OuterReturned /\ ret = TRUE)

C2_Witness ==
    /\ OuterReturned
    /\ ret_entry = ZeroGrid
    /\ ret = TRUE
    /\ NoZero(grid)
    /\ grid # BaseGrid

\* C3: the solution generate_puzzle returns has no zero cell and is fully
\* valid, the carving loop leaves it the grid solve_grid produced, and every
\* non-zero cell of puzzle equals the cell of solution at the same position.
C3_SolutionPreserved ==
    Carving =>
        /\ NoZero(solution)
        /\ FullyValid(solution)
        /\ solution = grid
        /\ \A p \in Cells : Get(puzzle, p) # 0 => Get(puzzle, p) = Get(solution, p)

C3_Witness ==
    /\ pc = "done"
    /\ ZeroCells(puzzle) # {}
    /\ \E p \in Cells : Get(puzzle, p) # 0
    /\ puzzle # solution

\* C4: throughout the carving loop and at its exit, 0 <= cells_removed <=
\* target (18 for Medium, 22 for Hard) and cells_removed is the number of zero
\* cells of puzzle.
C4_CellsRemovedBound ==
    Carving =>
        /\ 0 <= cells_removed
        /\ cells_removed <= num_to_remove
        /\ difficulty = "Medium" => num_to_remove = 18
        /\ difficulty = "Hard" => num_to_remove = 22
        /\ cells_removed = Cardinality(ZeroCells(puzzle))

C4_Witness ==
    /\ pc = "done"
    /\ difficulty = "Hard"
    /\ cells_removed = 22
    /\ attempts > 22

\* C5: the carving loop ends after at most 1000 iterations: every iteration
\* counts one attempt, attempts never passes 1000 and the loop can always
\* take its next step; at the exit cells_removed is the target or attempts is
\* 1000, and generate_puzzle returns its pair also when cells_removed is
\* below the target.
C5_CarvingTerminates ==
    Carving =>
        /\ iterations = attempts
        /\ attempts <= 1000
        /\ pc = "carve" => ENABLED (CarveHit \/ CarveMiss \/ CarveExit)
        /\ pc = "done" => (cells_removed = num_to_remove \/ attempts = 1000)

C5_Witness ==
    /\ pc = "done"
    /\ attempts = 1000
    /\ iterations = 1000
    /\ cells_removed < num_to_remove

\* C6: a difficulty that is no key of DIFFICULTY_LEVELS gets the target of
\* "Medium", 18, and the carving loop runs and exits under that target.
C6_UnknownDifficultyIsMedium ==
    (Carving /\ difficulty \notin DOMAIN DIFFICULTY_LEVELS) =>
        /\ num_to_remove = 18
        /\ num_to_remove = DIFFICULTY_LEVELS["Medium"]
        /\ cells_removed <= 18
        /\ pc = "done" => (cells_removed = 18 \/ attempts = 1000)

C6_Witness ==
    /\ pc = "done"
    /\ difficulty = "Easy"
    /\ cells_removed = 18
    /\ attempts = 18

\* C7: a call of solve_grid on a partially valid grid returns False only if
\* the grid it was entered on has no completion (so it returns True whenever
\* one exists), whatever orders the shuffles produce.
C7_FalseOnlyIfNoCompletion ==
    (pc = "return" /\ ret = FALSE /\ PartiallyValid(ret_entry))
        => ~Completable(ret_entry)

C7_Witness ==
    /\ OuterReturned
    /\ ret = FALSE
    /\ PartiallyValid(ret_entry)
    /\ ZeroCells(ret_entry) # {}

\* C8: is_safe(grid, row, col, num) is False exactly when num is in row `row`,
\* in column `col` or in the 2 by 3 box with origin (2*(row div 2),
\* 3*(col div 3)), and the call leaves the grid as it was.
C8_IsSafeIffAbsent ==
    /\ [](pc = "safe_done" =>
            LET row == safe_call.row
                col == safe_call.col
                num == safe_call.num
                peers == {p \in Cells :
                            \/ p[1] = row
                            \/ p[2] = col
                            \/ /\ p[1] - 2 * (row \div 2) \in {0, 1}
                               /\ p[2] - 3 * (col \div 3) \in {0, 1, 2}}
            IN  (safe_call.result = FALSE) <=> (\E p \in peers : Get(grid, p) = num))
    /\ [][pc = "safe" => grid' = grid]_vars

C8_Witness ==
    /\ pc = "safe_done"
    /\ safe_call.result = FALSE
    /\ \A p \in Cells : (p[1] = safe_call.row \/ p[2] = safe_call.col)
                            => Get(grid, p) # safe_call.num

\* C9: the puzzle generate_puzzle returns has exactly one completion, the
\* returned solution.
C9_PuzzleHasUniqueSolution ==
    pc = "done" => (Completable(puzzle) /\ ~OtherCompletion(puzzle, solution))

\* C10: when a call of solve_grid returns False, the grid is cell for cell the
\* grid the call was entered on.
C10_FalseRestoresGrid ==
    (pc = "return" /\ ret = FALSE) => grid = ret_entry

C10_Witness ==
    /\ OuterReturned
    /\ ret = FALSE
    /\ grid[At(0, 0)] = 1
    /\ grid[At(1, 3)] = 4
    /\ grid[At(0, 1)] = 0
    /\ is_safe(grid, 0, 1, 2)

====
